---- MODULE Spec2Model ----
(***************************************************************************)
(* Model of src/src/extension.ts: the module-level sampleSessions array    *)
(* (the session registry), MySessionFileSystem (the store),                *)
(* MyChatSessionItemProvider and the chat-session-sandbox.test-move        *)
(* command.  The extension host is the environment: it calls the file      *)
(* system provider's methods with arbitrary URIs, invokes the command, and *)
(* serves vscode.workspace.applyEdit.  Each action is one synchronous      *)
(* JavaScript turn of the extension.                                       *)
(***************************************************************************)
EXTENDS Naturals, Sequences, FiniteSets

\* Number of invocations of the test-move command that are modelled.
MaxRuns == 2
\* Number of renames the host requests outside of a test-move workspace edit.
MaxDirectRenames == 2
\* Largest reading of Date.now() taken by stat.
MaxClock == 1

Runs == 1..MaxRuns
Clock == 0..MaxClock

----------------------------------------------------------------------------
\* vscode.Uri values.  Only scheme and path occur in this program.

sessionScheme == "my-session"

Uri(scheme, path) == [scheme |-> scheme, path |-> path]

\* vscode.Uri.toString() for a URI with empty authority, query and fragment:
\* the scheme and a colon when there is a scheme, "//" for the file scheme
\* even though the authority is empty, then the path.
UriToString(u) ==
    (IF u.scheme # "" THEN u.scheme \o ":" ELSE "")
    \o (IF u.scheme = "file" THEN "//" ELSE "")
    \o u.path

\* The URIs of the workspace edit built by the test-move command.
from == Uri(sessionScheme, "/session-1")
to == Uri(sessionScheme, "/moved-session-1")

\* URIs the host passes to the provider: the seeded keys, the move target,
\* a key no record ever has, and a seeded path under another scheme.
Keys ==
    { from, to,
      Uri(sessionScheme, "/session-2"),
      Uri(sessionScheme, "/missing"),
      Uri("file", "/session-1") }

NoUri == Uri("", "")

----------------------------------------------------------------------------
\* The module-level array as it is after the module is loaded.  Times are
\* milliseconds relative to the load time.

SeedSessions ==
    << [ resource    |-> Uri(sessionScheme, "/session-1"),
         label       |-> "Chat Session 1",
         description |-> "First example session",
         status      |-> "Completed",
         timing      |-> [startTime |-> 0 - 3600000, endTime |-> 0 - 3000000] ],
       [ resource    |-> Uri(sessionScheme, "/session-2"),
         label       |-> "Chat Session 2",
         description |-> "Second example session",
         status      |-> "InProgress",
         timing      |-> [startTime |-> 0 - 1800000] ],
       [ resource    |-> Uri(sessionScheme, "/session-3"),
         label       |-> "Chat Session 3",
         description |-> "Third example session",
         status      |-> "Failed",
         timing      |-> [startTime |-> 0 - 7200000, endTime |-> 0 - 6000000] ] >>

VARIABLES
    sampleSessions,   \* the module-level array of ChatSessionItem
    moveListeners,    \* runs whose listener is subscribed to _onDidMoveFile
    pc,               \* position of each test-move invocation
    listenerRuns,     \* how often each invocation's listener has been called
    atStart,          \* sampleSessions as each invocation found it
    movedFired,       \* number of _onDidMoveFile.fire() calls
    changeFired,      \* number of _onDidChangeChatSessionItems.fire() calls
    directRenames,    \* renames requested outside a test-move edit
    last              \* the call made in the latest turn and its outcome

vars == << sampleSessions, moveListeners, pc, listenerRuns, atStart,
           movedFired, changeFired, directRenames, last >>

----------------------------------------------------------------------------
\* Outcomes of a provider call.

FileNotFound(uri) == [kind |-> "FileNotFound", detail |-> UriToString(uri)]
NoPermissions(msg) == [kind |-> "NoPermissions", detail |-> msg]
Returned == [kind |-> "ok"]

Call(op, uri, uri2, run, out) ==
    [op |-> op, uri |-> uri, uri2 |-> uri2, run |-> run, out |-> out]

----------------------------------------------------------------------------
\* MySessionFileSystem

RECURSIVE statFrom(_, _, _, _, _)
statFrom(ss, i, uri, c, m) ==
    IF i > Len(ss)
    THEN FileNotFound(uri)
    ELSE IF UriToString(ss[i].resource) = UriToString(uri)
         THEN [kind |-> "ok", type |-> "File", ctime |-> c, mtime |-> m, size |-> 0]
         ELSE statFrom(ss, i + 1, uri, c, m)

\* A stat that answers from the list as it was seeded.
statSeeded(ss, uri, c, m) == statFrom(SeedSessions, 1, uri, c, m)

stat(ss, uri, c, m) == statFrom(ss, 1, uri, c, m)

RECURSIVE readFileFrom(_, _, _)
readFileFrom(ss, i, uri) ==
    IF i > Len(ss)
    THEN FileNotFound(uri)
    ELSE IF UriToString(ss[i].resource) = UriToString(uri)
         THEN [kind |-> "ok",
               text |-> "Chat Session: " \o uri.path
                        \o "\n\nThis is the content of the session."]
         ELSE readFileFrom(ss, i + 1, uri)

readFile(ss, uri) == readFileFrom(ss, 1, uri)

readDirectory(uri) == [kind |-> "ok", entries |-> << >>]

createDirectory(uri) == NoPermissions("readonly")

writeFile(uri) == NoPermissions("readonly")

\* A delete that is a silent no-op.
deleteIgnored(uri) == Returned

delete(uri) == NoPermissions("readonly")

watch(uri) == [kind |-> "ok", disposable |-> "noop"]

----------------------------------------------------------------------------
\* The listener the test-move command subscribes to onDidMoveFile.

\* A listener that writes the key of the second record.
moveListenerDuplicate(ss) == [ss EXCEPT ![1].resource = ss[2].resource]

\* A listener that re-inserts the renamed record at the end.
moveListenerReinsert(ss) == Tail(ss) \o << [ss[1] EXCEPT !.resource = to] >>

moveListener(ss) == [ss EXCEPT ![1].resource = to]

\* EventEmitter.fire(): every subscribed listener is called once.
RECURSIVE fire(_, _)
fire(ss, L) ==
    IF L = {}
    THEN ss
    ELSE LET l == CHOOSE x \in L : TRUE
         IN  fire(moveListener(ss), L \ {l})

\* Index of the first record whose key is uri, 0 when there is none.
RECURSIVE indexOf(_, _, _)
indexOf(ss, i, uri) ==
    IF i > Len(ss) THEN 0
    ELSE IF UriToString(ss[i].resource) = UriToString(uri) THEN i
    ELSE indexOf(ss, i + 1, uri)

\* A rename that also rewrites the matching record itself.
renamePropagating(ss, L, oldUri, newUri) ==
    LET i == indexOf(ss, 1, oldUri)
        moved == IF i = 0 THEN ss ELSE [ss EXCEPT ![i].resource = newUri]
    IN  [sessions |-> fire(moved, L), listeners |-> {}, notified |-> L]

\* MySessionFileSystem.rename: fires onDidMoveFile.  Each listener called
\* disposes its own subscription.
rename(ss, L, oldUri, newUri) ==
    [sessions |-> fire(ss, L), listeners |-> {}, notified |-> L]

\* A command that never releases its subscription after applyEdit.
disposeAfterApplyEditSkipped(L, r) == L

\* sub.dispose() after the awaited applyEdit.
disposeAfterApplyEdit(L, r) == L \ {r}

----------------------------------------------------------------------------
Init ==
    /\ sampleSessions = SeedSessions
    /\ moveListeners = {}
    /\ pc = [r \in Runs |-> "idle"]
    /\ listenerRuns = [r \in Runs |-> 0]
    /\ atStart = [r \in Runs |-> SeedSessions]
    /\ movedFired = 0
    /\ changeFired = 0
    /\ directRenames = 0
    /\ last = Call("activate", NoUri, NoUri, 0, Returned)

Quiet == UNCHANGED << sampleSessions, moveListeners, pc, listenerRuns, atStart,
                      movedFired, changeFired, directRenames >>

\* MyChatSessionItemProvider.provideChatSessionItems: this.sessions is the
\* module-level array itself.
provideChatSessionItems(ss) == [kind |-> "ok", items |-> ss]

ProvideChatSessionItems ==
    /\ last' = Call("provideChatSessionItems", NoUri, NoUri, 0,
                    provideChatSessionItems(sampleSessions))
    /\ Quiet

Stat(uri) ==
    /\ \E c \in Clock : \E m \in Clock :
          /\ c <= m
          /\ last' = Call("stat", uri, NoUri, 0, stat(sampleSessions, uri, c, m))
    /\ Quiet

ReadFile(uri) ==
    /\ last' = Call("readFile", uri, NoUri, 0, readFile(sampleSessions, uri))
    /\ Quiet

ReadDirectory(uri) ==
    /\ last' = Call("readDirectory", uri, NoUri, 0, readDirectory(uri))
    /\ Quiet

CreateDirectory(uri) ==
    /\ last' = Call("createDirectory", uri, NoUri, 0, createDirectory(uri))
    /\ Quiet

WriteFile(uri) ==
    /\ last' = Call("writeFile", uri, NoUri, 0, writeFile(uri))
    /\ Quiet

Delete(uri) ==
    /\ last' = Call("delete", uri, NoUri, 0, delete(uri))
    /\ Quiet

Watch(uri) ==
    /\ last' = Call("watch", uri, NoUri, 0, watch(uri))
    /\ Quiet

\* The effect of one call of MySessionFileSystem.rename on the state.
DoRename(oldUri, newUri, run) ==
    LET res == rename(sampleSessions, moveListeners, oldUri, newUri)
    IN  /\ sampleSessions' = res.sessions
        /\ moveListeners' = res.listeners
        /\ listenerRuns' = [r \in Runs |->
                              IF r \in res.notified
                              THEN listenerRuns[r] + 1
                              ELSE listenerRuns[r]]
        /\ movedFired' = movedFired + 1
        /\ last' = Call("rename", oldUri, newUri, run,
                        [kind |-> "ok", notified |-> res.notified])

\* The host renames a resource of the scheme outside a test-move edit.
Rename(oldUri, newUri) ==
    /\ directRenames < MaxDirectRenames
    /\ directRenames' = directRenames + 1
    /\ DoRename(oldUri, newUri, 0)
    /\ UNCHANGED << pc, atStart, changeFired >>

\* test-move up to the await: the edit is built, the listener subscribed
\* and applyEdit called.  Invocations are numbered in the order they start.
TestMoveStart(r) ==
    /\ pc[r] = "idle"
    /\ \A q \in Runs : q < r => pc[q] # "idle"
    /\ pc' = [pc EXCEPT ![r] = "awaiting"]
    /\ moveListeners' = moveListeners \cup {r}
    /\ atStart' = [atStart EXCEPT ![r] = sampleSessions]
    /\ last' = Call("test-move:applyEdit", from, to, r, Returned)
    /\ UNCHANGED << sampleSessions, listenerRuns, movedFired, changeFired,
                    directRenames >>

\* The host carries out the edit of invocation r: it calls the provider's
\* rename with the edit's URIs.
ApplyEditRename(r) ==
    /\ pc[r] = "awaiting"
    /\ pc' = [pc EXCEPT ![r] = "renamed"]
    /\ DoRename(from, to, r)
    /\ UNCHANGED << atStart, changeFired, directRenames >>

\* applyEdit settles and test-move continues after the await.  The edit was
\* applied when the host called rename for it; otherwise the host refused it
\* and applyEdit resolved to false.  The command ignores the value.
TestMoveResume(r) ==
    /\ pc[r] \in {"awaiting", "renamed"}
    /\ pc' = [pc EXCEPT ![r] = "done"]
    /\ moveListeners' = disposeAfterApplyEdit(moveListeners, r)
    /\ changeFired' = changeFired + 1
    /\ last' = Call("test-move:done", from, to, r,
                    [kind |-> "ok", applied |-> (pc[r] = "renamed")])
    /\ UNCHANGED << sampleSessions, listenerRuns, atStart, movedFired,
                    directRenames >>

Next ==
    \/ ProvideChatSessionItems
    \/ \E uri \in Keys : Stat(uri)
    \/ \E uri \in Keys : ReadFile(uri)
    \/ \E uri \in Keys : ReadDirectory(uri)
    \/ \E uri \in Keys : CreateDirectory(uri)
    \/ \E uri \in Keys : WriteFile(uri)
    \/ \E uri \in Keys : Delete(uri)
    \/ \E uri \in Keys : Watch(uri)
    \/ \E oldUri \in Keys : \E newUri \in Keys : Rename(oldUri, newUri)
    \/ \E r \in Runs : TestMoveStart(r)
    \/ \E r \in Runs : ApplyEditRename(r)
    \/ \E r \in Runs : TestMoveResume(r)

Spec == Init /\ [][Next]_vars

----------------------------------------------------------------------------
\* Properties

\* uri is the key of a record of the list ss.
HasKey(ss, uri) == \E i \in DOMAIN ss : ss[i].resource = uri

\* Positions of the records of ss whose key is uri.
Holders(ss, uri) == {i \in DOMAIN ss : ss[i].resource = uri}

AllRunsFinished == \A r \in Runs : pc[r] \in {"idle", "done"}

\* C1: when a rename from key old to key new is carried out (the store's
\* rename is called with them and its moved notification reaches a
\* subscribed listener) and old is the key of a record, then afterwards no
\* record has key old, exactly one record has key new, the renamed record
\* differs from what it was in its key only, and every other record is
\* unchanged.
C1_RenameReplacesKey ==
    [][ ( /\ last'.op = "rename"
          /\ moveListeners # {}
          /\ last'.uri # last'.uri2
          /\ HasKey(sampleSessions, last'.uri) )
        => ( /\ ~HasKey(sampleSessions', last'.uri)
             /\ Cardinality(Holders(sampleSessions', last'.uri2)) = 1
             /\ DOMAIN sampleSessions' = DOMAIN sampleSessions
             /\ \A i \in DOMAIN sampleSessions :
                   IF sampleSessions[i].resource = last'.uri
                   THEN sampleSessions'[i]
                          = [sampleSessions[i] EXCEPT !.resource = last'.uri2]
                   ELSE sampleSessions'[i] = sampleSessions[i] ) ]_vars

\* C2: a rename whose old key is the key of no record fails with NotFound
\* and leaves the registry as it was.
C2_MissingKeyRenameFails ==
    [][ ( /\ last'.op = "rename"
          /\ ~HasKey(sampleSessions, last'.uri) )
        => ( /\ last'.out.kind = "FileNotFound"
             /\ sampleSessions' = sampleSessions ) ]_vars

\* C3: no two records of the registry have the same key.
C3_KeysUnique ==
    \A i \in DOMAIN sampleSessions : \A j \in DOMAIN sampleSessions :
        i # j => UriToString(sampleSessions[i].resource)
                   # UriToString(sampleSessions[j].resource)

\* C3 case: the invariant is looked at after a rename command has finished
\* and its listener has rewritten a key.
C3_Witness ==
    /\ \E r \in Runs : pc[r] = "done" /\ listenerRuns[r] = 1
    /\ HasKey(sampleSessions, to)

\* C4: stat and readFile succeed exactly when the URI is the key of a record
\* currently in the registry, stat then reporting a file of size 0; for
\* every other URI both fail with FileNotFound for that URI.
C4_LookupMatchesRegistry ==
    /\ last.op = "stat" =>
          IF HasKey(sampleSessions, last.uri)
          THEN /\ last.out.kind = "ok"
               /\ last.out.type = "File"
               /\ last.out.size = 0
          ELSE last.out = FileNotFound(last.uri)
    /\ last.op = "readFile" =>
          IF HasKey(sampleSessions, last.uri)
          THEN last.out.kind = "ok"
          ELSE last.out = FileNotFound(last.uri)

\* C4 case: stat of the key that was renamed away fails after the rename.
C4_Witness ==
    /\ last.op = "stat"
    /\ last.uri = from
    /\ HasKey(sampleSessions, to)
    /\ last.out.kind = "FileNotFound"

\* C5: writeFile, delete and createDirectory fail with NoPermissions for
\* every URI, leave the registry unchanged and fire neither event.
C5_MutatorsRejected ==
    [][ last'.op \in {"writeFile", "delete", "createDirectory"}
        => ( /\ last'.out.kind = "NoPermissions"
             /\ sampleSessions' = sampleSessions
             /\ movedFired' = movedFired
             /\ changeFired' = changeFired ) ]_vars

\* C5 case: a delete of a URI that is no record's key was rejected.
C5_Witness ==
    /\ last.op = "delete"
    /\ ~HasKey(sampleSessions, last.uri)
    /\ last.out.kind = "NoPermissions"

\* C6: the list returned is always the seeded records at their seeded
\* positions: same length, same labels in the same order, each record equal
\* to the seeded one at its position in everything but its key.
C6_ListIsSeedInOrder ==
    LET items == provideChatSessionItems(sampleSessions).items
    IN  /\ Len(items) = Len(SeedSessions)
        /\ \A i \in DOMAIN items :
              /\ items[i].label = SeedSessions[i].label
              /\ [items[i] EXCEPT !.resource = SeedSessions[i].resource]
                    = SeedSessions[i]

\* C6 case: the list was returned after the rename, with the new key first.
C6_Witness ==
    /\ last.op = "provideChatSessionItems"
    /\ last.out.items[1].resource = to
    /\ last.out.items[1].label = "Chat Session 1"

\* C7: the change notification fires only when the registry has changed: a
\* run of the command during which no moved notification was fired (its
\* listener is still subscribed when the await returns), or which finds the
\* registry as it was when the run began, fires no change notification.
C7_ChangeOnlyAfterChange ==
    [][ \A r \in Runs :
          ( /\ last'.op = "test-move:done"
            /\ last'.run = r
            /\ (r \in moveListeners \/ sampleSessions = atStart[r]) )
          => changeFired' = changeFired ]_vars

\* C8: a rename called while no listener is subscribed fires one moved
\* notification and leaves the registry unchanged, so stat and readFile of
\* both URIs answer as before.
C8_RenameAloneKeepsRegistry ==
    [][ ( /\ last'.op = "rename"
          /\ moveListeners = {} )
        => ( /\ movedFired' = movedFired + 1
             /\ changeFired' = changeFired
             /\ sampleSessions' = sampleSessions
             /\ \A k \in {last'.uri, last'.uri2} :
                   /\ stat(sampleSessions', k, 0, 0) = stat(sampleSessions, k, 0, 0)
                   /\ readFile(sampleSessions', k) = readFile(sampleSessions, k) ) ]_vars

\* C8 case: a rename of a record's key to a free key was called with no
\* listener subscribed; the old key still resolves and the new one does not.
C8_Witness ==
    /\ last.op = "rename"
    /\ last.out.notified = {}
    /\ HasKey(sampleSessions, last.uri)
    /\ ~HasKey(sampleSessions, last.uri2)
    /\ stat(sampleSessions, last.uri, 0, 0).kind = "ok"
    /\ readFile(sampleSessions, last.uri2).kind = "FileNotFound"

\* C9: when the change notification of a command run fires, the host has
\* called the store's rename for the run's edit, the run's listener has
\* updated the registry, and the list already holds the renamed key.
C9_ChangeFollowsRename ==
    [][ \A r \in Runs :
          ( /\ last'.op = "test-move:done"
            /\ last'.run = r )
          => ( /\ changeFired' = changeFired + 1
               /\ pc[r] = "renamed"
               /\ listenerRuns[r] = 1
               /\ HasKey(sampleSessions', to) ) ]_vars

\* C10: a run's listener is called at most once, is subscribed only while
\* its run is between subscribing and finishing, and once every started run
\* has finished no listener is subscribed and a rename leaves the registry
\* unchanged.
C10_ListenerOneShot ==
    /\ [] ( /\ \A r \in Runs : listenerRuns[r] <= 1
            /\ \A r \in moveListeners : pc[r] \notin {"idle", "done"}
            /\ AllRunsFinished => moveListeners = {} )
    /\ [][ (AllRunsFinished /\ last'.op = "rename")
           => sampleSessions' = sampleSessions ]_vars

\* C10 case: every run has finished, one of them without its listener ever
\* being called, and a rename made afterwards notified nobody.
C10_Witness ==
    /\ \A r \in Runs : pc[r] = "done"
    /\ \E r \in Runs : listenerRuns[r] = 0
    /\ last.op = "rename"
    /\ last.out.notified = {}

====
